---------------------------- MODULE Spec2Model ----------------------------
(***************************************************************************)
(* Model of the Odoo relay client (backend service module):                *)
(* authenticateOdoo, authenticateWithJSONRPC, fetchSalesOrders,            *)
(* fetchSalesWithJSONRPC and fetchSalesWithXMLRPC.                         *)
(*                                                                         *)
(* One invocation of a public operation is a small state machine: every    *)
(* action is the code that runs between two suspension points (an await    *)
(* or an XML-RPC callback).  The remote endpoint is the environment: the   *)
(* answers of the XML-RPC transport are fixed when the run starts          *)
(* (variable remote), the answers of the JSON-RPC transport are chosen     *)
(* when each reply arrives.  The express server in front of the module     *)
(* handles one HTTP request (variable server).                             *)
(***************************************************************************)
EXTENDS Integers, Sequences, FiniteSets, TLC

VARIABLES
    op,         \* the public operation that was invoked
    args,       \* its arguments: url, limit, offset
    remote,     \* the remote: its sale.order table and its XML-RPC answers
    pc,         \* where the invocation is suspended
    calls,      \* the remote calls issued so far, each with the reply it got
    uid,        \* fetchSalesOrders: const uid = authResult.uid
    count,      \* the count local of the fetch path that is running
    orderIds,   \* fetchSalesWithXMLRPC: the ids the search step returned
    result,     \* the value the returned promise resolved to
    earlier,    \* the invocations that finished before this one
    other,      \* a second invocation in flight, while it does not run
    server,     \* the HTTP request the server is handling, if any
    dash        \* the Dashboard component in the browser, if it is mounted

vars == <<op, args, remote, pc, calls, uid, count, orderIds, result,
          earlier, other, server, dash>>

(***************************************************************************)
(* Bounds of the model.                                                    *)
(***************************************************************************)
MaxOrders == 3
MaxLimit == 2
MaxOffset == 1

(***************************************************************************)
(* JavaScript values.  Every value carries its type tag; the payload field *)
(* is named after the type.                                                *)
(***************************************************************************)
Undefined == [t |-> "undefined"]
Null == [t |-> "null"]
NaN == [t |-> "nan"]
Infinity == [t |-> "inf"]
Bool(b) == [t |-> "bool", b |-> b]
Num(n) == [t |-> "num", n |-> n]
Str(s) == [t |-> "str", s |-> s]
Arr(a) == [t |-> "arr", a |-> a]

\* ToBoolean: what `v ? a : b`, `v || d` and `if (v)` test.
Truthy(v) ==
    CASE v.t = "undefined" -> FALSE
      [] v.t = "null" -> FALSE
      [] v.t = "nan" -> FALSE
      [] v.t = "inf" -> TRUE
      [] v.t = "bool" -> v.b
      [] v.t = "num" -> v.n # 0
      [] v.t = "str" -> v.s # ""
      [] v.t = "arr" -> TRUE
      [] v.t = "obj" -> TRUE

\* v != null (loose): false exactly for null and undefined.
NotNullish(v) == v.t \notin {"undefined", "null"}

\* v || d
OrElse(v, d) == IF Truthy(v) THEN v ELSE d

\* Number(s) on the strings of the model.
StringToNumber(s) ==
    CASE s = "" -> Num(0)
      [] s = "0" -> Num(0)
      [] s = "18" -> Num(18)
      [] s = "120" -> Num(120)
      [] s = "250" -> Num(250)
      [] s = "Infinity" -> Infinity
      [] OTHER -> NaN

\* Number(v)
ToNumber(v) ==
    CASE v.t = "undefined" -> NaN
      [] v.t = "null" -> Num(0)
      [] v.t = "nan" -> NaN
      [] v.t = "inf" -> Infinity
      [] v.t = "bool" -> IF v.b THEN Num(1) ELSE Num(0)
      [] v.t = "num" -> v
      [] v.t = "str" -> StringToNumber(v.s)
      [] v.t = "arr" -> IF Len(v.a) = 0 THEN Num(0) ELSE NaN

\* a + b on two numbers
Plus(a, b) ==
    IF a.t = "nan" \/ b.t = "nan" THEN NaN
    ELSE IF a.t = "inf" \/ b.t = "inf" THEN Infinity
    ELSE Num(a.n + b.n)

\* isNaN(x) on a number
IsNaN(x) == x.t = "nan"

\* Number.isFinite(x)
IsFinite(x) == x.t = "num"

\* v[i] on a non-nullish value (0-based): an element of an array, undefined
\* past its end and on a number or a boolean.
Index(v, i) ==
    IF v.t = "arr" /\ i + 1 <= Len(v.a) THEN v.a[i + 1] ELSE Undefined

\* v.length on a non-nullish value
Length(v) == IF v.t = "arr" THEN Num(Len(v.a)) ELSE Undefined

\* Array.isArray(v)
IsArray(v) == v.t = "arr"


\* An object with the given fields (a property that is absent reads undefined).
Obj(f) == [t |-> "obj", f |-> f]

\* What a callback that throws leaves behind: a TypeError completion.
TypeError == [threw |-> "TypeError"]

Threw(x) == "threw" \in DOMAIN x

(***************************************************************************)
(* Normalization of one raw sale.order record, JSON-RPC path.              *)
(***************************************************************************)
\* Variant: the label is taken from any array, also one without a label.
currencyNameJSONAnyArray(order) ==
    IF Truthy(order.f.currency_id)
    THEN IF IsArray(order.f.currency_id)
         THEN Index(order.f.currency_id, 1)
         ELSE IF order.f.currency_id.t = "str"
              THEN order.f.currency_id
              ELSE Str("INR")
    ELSE Str("INR")

currencyNameJSON(order) ==
    IF Truthy(order.f.currency_id)
    THEN IF IsArray(order.f.currency_id) /\ Len(order.f.currency_id.a) > 1
         THEN Index(order.f.currency_id, 1)
         ELSE IF order.f.currency_id.t = "str"
              THEN order.f.currency_id
              ELSE Str("INR")
    ELSE Str("INR")

amountTotalJSON(order) ==
    LET amountTotal == IF NotNullish(order.f.amount_total)
                       THEN ToNumber(order.f.amount_total) ELSE Num(0)
        amountUntaxed == IF NotNullish(order.f.amount_untaxed)
                         THEN ToNumber(order.f.amount_untaxed) ELSE Num(0)
        amountTax == IF NotNullish(order.f.amount_tax)
                     THEN ToNumber(order.f.amount_tax) ELSE Num(0)
    IN  IF amountTotal = Num(0) \/ IsNaN(amountTotal)
        THEN Plus(amountUntaxed, amountTax)
        ELSE amountTotal

\* Variant: partner_id is indexed without the test that it is set, which
\* throws on null and undefined.
formatOrderJSONUnguarded(order) ==
    IF ~NotNullish(order) \/ ~NotNullish(order.f.partner_id) THEN TypeError
    ELSE
    [ id |-> order.f.id,
      name |-> order.f.name,
      customer |-> Index(order.f.partner_id, 1),
      customerId |-> Index(order.f.partner_id, 0),
      date |-> order.f.date_order,
      total |-> amountTotalJSON(order),
      amount |-> amountTotalJSON(order),
      currency |-> currencyNameJSON(order),
      state |-> order.f.state,
      salesperson |-> IF Truthy(order.f.user_id)
                      THEN Index(order.f.user_id, 1) ELSE Str("N/A"),
      team |-> IF Truthy(order.f.team_id)
               THEN Index(order.f.team_id, 1) ELSE Str("N/A"),
      reference |-> OrElse(order.f.client_order_ref, Str("")),
      note |-> OrElse(order.f.note, Str("")),
      lineCount |-> IF Truthy(order.f.order_line)
                    THEN Length(order.f.order_line) ELSE Num(0) ]

formatOrderJSON(order) ==
    IF ~NotNullish(order) THEN TypeError
    ELSE
    [ id |-> order.f.id,
      name |-> order.f.name,
      customer |-> IF Truthy(order.f.partner_id)
                   THEN Index(order.f.partner_id, 1) ELSE Str("N/A"),
      customerId |-> IF Truthy(order.f.partner_id)
                     THEN Index(order.f.partner_id, 0) ELSE Null,
      date |-> order.f.date_order,
      total |-> amountTotalJSON(order),
      amount |-> amountTotalJSON(order),
      currency |-> currencyNameJSON(order),
      state |-> order.f.state,
      salesperson |-> IF Truthy(order.f.user_id)
                      THEN Index(order.f.user_id, 1) ELSE Str("N/A"),
      team |-> IF Truthy(order.f.team_id)
               THEN Index(order.f.team_id, 1) ELSE Str("N/A"),
      reference |-> OrElse(order.f.client_order_ref, Str("")),
      note |-> OrElse(order.f.note, Str("")),
      lineCount |-> IF Truthy(order.f.order_line)
                    THEN Length(order.f.order_line) ELSE Num(0) ]

(***************************************************************************)
(* Normalization of one raw sale.order record, XML-RPC path.               *)
(***************************************************************************)
currencyNameXML(order) ==
    IF Truthy(order.f.currency_id)
    THEN IF IsArray(order.f.currency_id) /\ Len(order.f.currency_id.a) > 1
         THEN Index(order.f.currency_id, 1)
         ELSE IF order.f.currency_id.t = "str"
              THEN order.f.currency_id
              ELSE Str("INR")
    ELSE Str("INR")

\* Variant: the XML path keeps a zero or unreadable total as it is.
amountTotalXMLNoFallback(order) ==
    IF NotNullish(order.f.amount_total)
    THEN ToNumber(order.f.amount_total) ELSE Num(0)

amountTotalXML(order) ==
    LET amountTotal == IF NotNullish(order.f.amount_total)
                       THEN ToNumber(order.f.amount_total) ELSE Num(0)
        amountUntaxed == IF NotNullish(order.f.amount_untaxed)
                         THEN ToNumber(order.f.amount_untaxed) ELSE Num(0)
        amountTax == IF NotNullish(order.f.amount_tax)
                     THEN ToNumber(order.f.amount_tax) ELSE Num(0)
    IN  IF amountTotal = Num(0) \/ IsNaN(amountTotal)
        THEN Plus(amountUntaxed, amountTax)
        ELSE amountTotal

\* Variant: salesperson takes the id of user_id instead of its label.
formatOrderXMLSalespersonId(order) ==
    IF ~NotNullish(order) THEN TypeError
    ELSE
    [ id |-> order.f.id,
      name |-> order.f.name,
      customer |-> IF Truthy(order.f.partner_id)
                   THEN Index(order.f.partner_id, 1) ELSE Str("N/A"),
      customerId |-> IF Truthy(order.f.partner_id)
                     THEN Index(order.f.partner_id, 0) ELSE Null,
      date |-> order.f.date_order,
      total |-> amountTotalXML(order),
      amount |-> amountTotalXML(order),
      currency |-> currencyNameXML(order),
      state |-> order.f.state,
      salesperson |-> IF Truthy(order.f.user_id)
                      THEN Index(order.f.user_id, 0) ELSE Str("N/A"),
      team |-> IF Truthy(order.f.team_id)
               THEN Index(order.f.team_id, 1) ELSE Str("N/A"),
      reference |-> OrElse(order.f.client_order_ref, Str("")),
      note |-> OrElse(order.f.note, Str("")),
      lineCount |-> IF Truthy(order.f.order_line)
                    THEN Length(order.f.order_line) ELSE Num(0) ]

formatOrderXML(order) ==
    IF ~NotNullish(order) THEN TypeError
    ELSE
    [ id |-> order.f.id,
      name |-> order.f.name,
      customer |-> IF Truthy(order.f.partner_id)
                   THEN Index(order.f.partner_id, 1) ELSE Str("N/A"),
      customerId |-> IF Truthy(order.f.partner_id)
                     THEN Index(order.f.partner_id, 0) ELSE Null,
      date |-> order.f.date_order,
      total |-> amountTotalXML(order),
      amount |-> amountTotalXML(order),
      currency |-> currencyNameXML(order),
      state |-> order.f.state,
      salesperson |-> IF Truthy(order.f.user_id)
                      THEN Index(order.f.user_id, 1) ELSE Str("N/A"),
      team |-> IF Truthy(order.f.team_id)
               THEN Index(order.f.team_id, 1) ELSE Str("N/A"),
      reference |-> OrElse(order.f.client_order_ref, Str("")),
      note |-> OrElse(order.f.note, Str("")),
      lineCount |-> IF Truthy(order.f.order_line)
                    THEN Length(order.f.order_line) ELSE Num(0) ]

\* Variant: formattedOrders lives at module scope and is appended to.
mapJSONAccumulating(list) ==
    IF \E i \in 1..Len(list) : Threw(formatOrderJSON(list[i]))
    THEN TypeError
    ELSE Arr((IF earlier # <<>> /\ earlier[1].result.success
              THEN earlier[1].result.data ELSE <<>>)
             \o [i \in 1..Len(list) |-> formatOrderJSON(list[i])])

\* list.map(f): the array of the results, or the TypeError the first failing
\* call threw.
mapJSON(list) ==
    IF \E i \in 1..Len(list) : Threw(formatOrderJSON(list[i]))
    THEN TypeError
    ELSE Arr([i \in 1..Len(list) |-> formatOrderJSON(list[i])])

mapXML(list) ==
    IF \E i \in 1..Len(list) : Threw(formatOrderXML(list[i]))
    THEN TypeError
    ELSE Arr([i \in 1..Len(list) |-> formatOrderXML(list[i])])


(***************************************************************************)
(* Urls.  A url string is the sequence of its chunks, "/" being one slash, *)
(* so that stripping the trailing slash is an operation on it.             *)
(***************************************************************************)
Url(chunks) == [t |-> "str", c |-> chunks]

Origins == {"https://demo.odoo.com"}

Urls == { Url(<<"https://demo.odoo.com">>),
          Url(<<"https://demo.odoo.com", "/">>),
          Url(<<"https://demo.odoo.com", "/", "/">>),
          Url(<<"demo.odoo.com">>),
          Undefined }

\* Variant: url.replace(/\/+$/, ''), every trailing slash removed.
stripTrailingSlashes(u) ==
    IF u.t = "str" THEN Url(SelectSeq(u.c, LAMBDA x : x # "/")) ELSE u

\* url.replace(/\/$/, ''): one trailing slash removed.
stripTrailingSlash(u) ==
    IF Len(u.c) > 0 /\ u.c[Len(u.c)] = "/"
    THEN Url(SubSeq(u.c, 1, Len(u.c) - 1))
    ELSE u

\* new URL(u) and axios accept u: it starts with a scheme and a host.
WellFormed(u) == Len(u.c) > 0 /\ u.c[1] \in Origins

Endpoint(u, path) == Url(u.c \o <<path>>)

(***************************************************************************)
(* Completions of a function body, and the results the operations return.  *)
(***************************************************************************)
Return(v) == [k |-> "return", v |-> v]
Throw(m) == [k |-> "throw", message |-> m]

Success(u) == [success |-> TRUE, uid |-> u]
Failure(m) == [success |-> FALSE, error |-> m]
Fetched(d, c) == [success |-> TRUE, data |-> d, count |-> c]

Pending == [pending |-> TRUE]

\* error.message || fallback
MessageOr(m, fallback) == IF m # "" THEN m ELSE fallback

(***************************************************************************)
(* What axios.post settles with: a rejection (network error, timeout,      *)
(* non-2xx status, url it cannot parse) or a response whose data is the    *)
(* parsed body, or the body as a string when it is not JSON.               *)
(***************************************************************************)
Rejected(m) == [k |-> "reject", message |-> m]
Response(d) == [k |-> "response", data |-> d]

NetworkError == Rejected("Network Error")
Non2xx == Rejected("Request failed with status code 500")
AuthTimeout == Rejected("timeout of 10000ms exceeded")
DataTimeout == Rejected("timeout of 30000ms exceeded")
InvalidUrl == Rejected("Invalid URL")
NullBody == Response(Null)
UnparsableBody == Response(Str("<html>Bad Gateway</html>"))
ErrorEnvelope == Response(Obj([error |-> Str("Odoo Server Error")]))
Result(v) == Response(Obj([result |-> v]))

NullMessage == "Cannot read properties of null (reading 'result')"
UndefinedMessage == "Cannot read properties of undefined (reading 'replace')"

\* data.name on a non-nullish value
Get(v, name) ==
    IF v.t = "obj" /\ name \in DOMAIN v.f THEN v.f[name] ELSE Undefined

\* The uid the remote gives the user of the model.
RemoteUid == Num(5)

JsonAuthAnswers ==
    { NetworkError, Non2xx, AuthTimeout, NullBody, UnparsableBody,
      ErrorEnvelope, Result(Bool(FALSE)), Result(RemoteUid) }

\* The replies a JSON-RPC call to url u can get.
JsonAnswers(u, S) == IF WellFormed(u) THEN S ELSE {InvalidUrl}

(***************************************************************************)
(* The remote's sale.order table and the pages a call sees of it.          *)
(***************************************************************************)
Min(a, b) == IF a < b THEN a ELSE b

Page(orders, limit, offset) ==
    SubSeq(orders, offset + 1, Min(Len(orders), offset + limit))

Ids(orders) == [i \in 1..Len(orders) |-> orders[i].f.id]

JsonCountAnswers ==
    { DataTimeout, NullBody, UnparsableBody, ErrorEnvelope,
      Result(Num(Len(remote.orders))) }

JsonReadAnswers ==
    { DataTimeout, NullBody, UnparsableBody, ErrorEnvelope,
      Result(Arr(<<Null>>)),
      Result(Arr(Page(remote.orders, args.limit, args.offset))) }

\* What node-xmlrpc hands to the callback of methodCall: (error, value).
Callback(e, v) == [k |-> "callback", error |-> e, value |-> v]
XmlFault == [message |-> "connect ECONNREFUSED"]
NoError == [none |-> TRUE]
IsError(e) == "message" \in DOMAIN e

\* A call the remote never answers: node-xmlrpc never runs the callback.
Silent == "silent"

XmlAuthKinds == {"error", "false", "uid"}
XmlSearchKinds == {"error", "absent", "ids"}
XmlCountKinds == {"error", "count"}
XmlReadKinds == {"error", "absent", "nullEntry", "records"}

XmlAuthAnswer ==
    CASE remote.xmlAuth = "error" -> Callback(XmlFault, Undefined)
      [] remote.xmlAuth = "false" -> Callback(NoError, Bool(FALSE))
      [] remote.xmlAuth = "uid" -> Callback(NoError, RemoteUid)

XmlSearchAnswer ==
    CASE remote.xmlSearch = "error" -> Callback(XmlFault, Undefined)
      [] remote.xmlSearch = "absent" -> Callback(NoError, Undefined)
      [] remote.xmlSearch = "ids" ->
           Callback(NoError,
                    Arr(Ids(Page(remote.orders, args.limit, args.offset))))

XmlCountAnswer ==
    CASE remote.xmlCount = "error" -> Callback(XmlFault, Undefined)
      [] remote.xmlCount = "count" ->
           Callback(NoError, Num(Len(remote.orders)))

\* read(ids): the records of the table with these ids, in the ids' order.
ReadRecords(ids) ==
    [i \in 1..Len(ids) |->
        CHOOSE o \in {remote.orders[j] : j \in 1..Len(remote.orders)} :
            o.f.id = ids[i]]

XmlReadAnswer(ids) ==
    CASE remote.xmlRead = "error" -> Callback(XmlFault, Undefined)
      [] remote.xmlRead = "absent" -> Callback(NoError, Undefined)
      [] remote.xmlRead = "nullEntry" -> Callback(NoError, Arr(<<Null>>))
      [] remote.xmlRead = "records" -> Callback(NoError, Arr(ReadRecords(ids)))


(***************************************************************************)
(* The log of remote calls.                                                *)
(***************************************************************************)
Call(transport, to, method, params) ==
    [transport |-> transport, to |-> to, method |-> method,
     params |-> params, reply |-> Pending]

\* A JSON-RPC envelope carries id: Math.floor(Math.random() * 1000000).
JsonCall(to, method, params, id) ==
    [Call("json", to, method, params) EXCEPT !.params = [p |-> params, id |-> id]]

Issue(cs, call) == Append(cs, call)

Answer(cs, r) == [cs EXCEPT ![Len(cs)].reply = r]

(***************************************************************************)
(* authenticateWithJSONRPC: what it completes with, given what axios.post  *)
(* settled with.                                                           *)
(***************************************************************************)
authenticateWithJSONRPC(reply) ==
    IF reply.k = "reject"
    THEN Return(Failure(MessageOr(reply.message,
                                  "JSON-RPC authentication failed")))
    ELSE IF ~NotNullish(reply.data)
    THEN Return(Failure(MessageOr(NullMessage,
                                  "JSON-RPC authentication failed")))
    ELSE IF Truthy(Get(reply.data, "result"))
            /\ Get(reply.data, "result") # Bool(FALSE)
    THEN Return(Success(Get(reply.data, "result")))
    ELSE Return(Failure("Invalid credentials"))

\* authenticateOdoo, the callback of the XML-RPC authenticate call.
authenticateXMLCallback(cb) ==
    IF IsError(cb.error)
    THEN Failure(MessageOr(cb.error.message, "Authentication failed"))
    ELSE IF Truthy(cb.value) /\ cb.value # Bool(FALSE)
    THEN Success(cb.value)
    ELSE Failure("Invalid credentials")

\* authenticateOdoo, its outer catch block.
authenticateCatch(message) ==
    Failure(MessageOr(message, "Authentication failed"))

\* fetchSalesOrders: the test on authResult and what it returns when it fails.
authFailed(authResult) ==
    ~authResult.success \/ ~Truthy(authResult.uid)

\* Variant: the failed authResult is handed on as it is.
authFailureHandsOnAuthResult(authResult) == authResult

authFailure(authResult) == Failure("Authentication failed")

\* Variant: the catch block drops the message of the error it caught.
fetchCatchDropsMessage(message) == Failure("Failed to fetch sales orders")

\* fetchSalesOrders, its outer catch block.
fetchCatch(message) ==
    Failure(MessageOr(message, "Failed to fetch sales orders"))

(***************************************************************************)
(* fetchSalesWithJSONRPC, step by step.                                    *)
(***************************************************************************)
\* Variant: a failed search_count is ignored, as on the XML path.
jsonCountStepIgnoresFailure(reply) ==
    IF reply.k = "reject" \/ ~NotNullish(reply.data)
    THEN Return(Num(0))
    ELSE Return(OrElse(Get(reply.data, "result"), Num(0)))

\* After the search_count reply: the count, or the error thrown.
jsonCountStep(reply) ==
    IF reply.k = "reject"
    THEN Throw("JSON-RPC fetch failed: " \o reply.message)
    ELSE IF ~NotNullish(reply.data)
    THEN Throw("JSON-RPC fetch failed: " \o NullMessage)
    ELSE Return(OrElse(Get(reply.data, "result"), Num(0)))

\* After the search_read reply: the result returned, or the error thrown.
jsonReadStep(reply, cnt) ==
    IF reply.k = "reject"
    THEN Throw("JSON-RPC fetch failed: " \o reply.message)
    ELSE IF ~NotNullish(reply.data)
    THEN Throw("JSON-RPC fetch failed: " \o NullMessage)
    ELSE LET salesOrders == OrElse(Get(reply.data, "result"), Arr(<<>>))
         IN  IF ~IsArray(salesOrders)
             THEN Throw("JSON-RPC fetch failed: salesOrders.map is not a function")
             ELSE IF Threw(mapJSON(salesOrders.a))
             THEN Throw("JSON-RPC fetch failed: " \o NullMessage)
             ELSE Return(Fetched(mapJSON(salesOrders.a).a, cnt))

(***************************************************************************)
(* fetchSalesWithXMLRPC, callback by callback.  Each gives what happens to *)
(* the promise: it is resolved, rejected, left pending with the next call  *)
(* issued, or left pending by an exception thrown in the callback.         *)
(***************************************************************************)
Resolve(v) == [k |-> "resolve", v |-> v]
Reject(m) == [k |-> "reject", message |-> m]
Continue(v) == [k |-> "continue", v |-> v]
Uncaught == [k |-> "uncaught"]

\* Variant: only an absent id list short-circuits, an empty one does not.
xmlSearchCallbackAbsentOnly(cb) ==
    IF IsError(cb.error)
    THEN Reject("XML-RPC search failed: " \o cb.error.message)
    ELSE IF ~Truthy(cb.value)
    THEN Resolve(Fetched(<<>>, Num(0)))
    ELSE Continue(cb.value)

xmlSearchCallback(cb) ==
    IF IsError(cb.error)
    THEN Reject("XML-RPC search failed: " \o cb.error.message)
    ELSE IF ~Truthy(cb.value) \/ Length(cb.value) = Num(0)
    THEN Resolve(Fetched(<<>>, Num(0)))
    ELSE Continue(cb.value)

\* The count the read callback sees: undefined when the count call failed.
xmlCountCallback(cb) == Continue(cb.value)

\* Variant: the count is returned as it came, without the fallback to the
\* number of records.
xmlReadCallbackNoCountFallback(cb, cnt) ==
    IF IsError(cb.error)
    THEN Reject("XML-RPC read failed: " \o cb.error.message)
    ELSE LET salesOrders == OrElse(cb.value, Arr(<<>>))
         IN  IF ~IsArray(salesOrders) \/ Threw(mapXML(salesOrders.a))
             THEN Uncaught
             ELSE Resolve(Fetched(mapXML(salesOrders.a).a, cnt))

xmlReadCallback(cb, cnt) ==
    IF IsError(cb.error)
    THEN Reject("XML-RPC read failed: " \o cb.error.message)
    ELSE LET salesOrders == OrElse(cb.value, Arr(<<>>))
         IN  IF ~IsArray(salesOrders) \/ Threw(mapXML(salesOrders.a))
             THEN Uncaught
             ELSE Resolve(Fetched(mapXML(salesOrders.a).a,
                                  OrElse(cnt, Num(Len(salesOrders.a)))))


(***************************************************************************)
(* The raw records of the model.                                           *)
(***************************************************************************)
Pair(id, label) == Arr(<<Num(id), Str(label)>>)

\* A fully populated sale.order record as the remote returns it.
FullOrder(i) ==
    Obj([ id |-> Num(i),
          name |-> Str("S0000"),
          partner_id |-> Pair(7, "Acme Co"),
          date_order |-> Str("2024-01-15 10:00:00"),
          amount_total |-> Num(250),
          amount_untaxed |-> Num(120),
          amount_tax |-> Num(18),
          state |-> Str("sale"),
          order_line |-> Arr(<<Num(11), Num(12)>>),
          user_id |-> Pair(2, "Mitchell Admin"),
          team_id |-> Pair(1, "Sales"),
          currency_id |-> Pair(3, "USD"),
          client_order_ref |-> Str("PO-1"),
          note |-> Str("urgent") ])

With(order, changes) ==
    Obj([name \in DOMAIN order.f |->
            IF name \in DOMAIN changes THEN changes[name] ELSE order.f[name]])

\* A draft order whose total the remote has not computed.
ZeroTotalOrder(i) ==
    With(FullOrder(i), [ amount_total |-> Num(0), state |-> Str("draft"),
                         partner_id |-> Bool(FALSE), note |-> Bool(FALSE) ])

\* A record with nothing but its id and name.
SparseOrder(i) ==
    Obj([ id |-> Num(i), name |-> Str("S0000"),
          partner_id |-> Undefined, date_order |-> Undefined,
          amount_total |-> Undefined, amount_untaxed |-> Undefined,
          amount_tax |-> Undefined, state |-> Undefined,
          order_line |-> Undefined, user_id |-> Undefined,
          team_id |-> Undefined, currency_id |-> Undefined,
          client_order_ref |-> Undefined, note |-> Undefined ])

SampleOrder(i) ==
    CASE i % 3 = 1 -> FullOrder(i)
      [] i % 3 = 2 -> ZeroTotalOrder(i)
      [] OTHER -> SparseOrder(i)

\* The sale.order tables of the model: 0..MaxOrders records.
Tables == { [i \in 1..n |-> SampleOrder(i)] : n \in 0..MaxOrders }

DefaultLimit == 100
DefaultOffset == 0

Limits == (1..MaxLimit) \cup {DefaultLimit}
Offsets == 0..MaxOffset

(***************************************************************************)
(* The invocation.                                                         *)
(***************************************************************************)
\* No second invocation.
NoOther == [none |-> TRUE]

\* Variant: the normalized url is kept in a module-level variable that the
\* invocation started last has overwritten.
baseUrlShared ==
    stripTrailingSlash(IF other # NoOther /\ other.pc # "idle"
                       THEN other.args.url ELSE args.url)

baseUrl == stripTrailingSlash(args.url)

Finish(res, cs) ==
    /\ pc' = "done"
    /\ result' = res
    /\ calls' = cs
    /\ UNCHANGED <<uid, count, orderIds>>

\* authenticateOdoo has returned authResult: it is the result of the
\* invocation, or fetchSalesOrders goes on with it up to its first await.
AuthReturns(authResult, cs) ==
    IF op = "authenticateOdoo"
    THEN Finish(authResult, cs)
    ELSE IF authFailed(authResult)
    THEN Finish(authFailure(authResult), cs)
    ELSE /\ uid' = authResult.uid
         /\ pc' = "jsonCount"
         /\ \E id \in remote.requestIds :
               calls' = Issue(cs, JsonCall(Endpoint(baseUrl, "/jsonrpc"),
                                           "search_count",
                                           [uid |-> authResult.uid], id))
         /\ UNCHANGED <<count, orderIds, result>>

\* fetchSalesOrders: the JSON path threw, fetchSalesWithXMLRPC starts.
FallBackToXML(cs) ==
    IF ~WellFormed(baseUrl)
    THEN Finish(fetchCatch("Invalid URL"), cs)
    ELSE /\ pc' = "xmlSearch"
         /\ calls' = Issue(cs, Call("xml", Endpoint(baseUrl, "/xmlrpc/2/object"),
                                    "search",
                                    [limit |-> args.limit, offset |-> args.offset]))
         /\ UNCHANGED <<uid, count, orderIds, result>>

\* The operation is called and runs up to its first await.
Invoke ==
    /\ pc = "idle"
    /\ IF args.url.t # "str"
       THEN AuthReturns(authenticateCatch(UndefinedMessage), calls)
       ELSE /\ pc' = "jsonAuth"
            /\ \E id \in remote.requestIds :
                  calls' = Issue(calls, JsonCall(Endpoint(baseUrl, "/jsonrpc"),
                                                 "authenticate",
                                                 [args |-> "credentials"], id))
            /\ UNCHANGED <<uid, count, orderIds, result>>
    /\ UNCHANGED <<op, args, remote, earlier, other, server, dash>>

\* An authenticate call is answered: the JSON-RPC one, or the XML-RPC one
\* that authenticateOdoo issues when authenticateWithJSONRPC throws.
AuthReply ==
    /\ pc \in {"jsonAuth", "xmlAuth"}
    /\ IF pc = "jsonAuth"
       THEN \E r \in JsonAnswers(baseUrl, JsonAuthAnswers) :
              LET c == authenticateWithJSONRPC(r)
                  cs == Answer(calls, r)
              IN  IF c.k = "return"
                  THEN AuthReturns(c.v, cs)
                  ELSE IF ~WellFormed(baseUrl)
                  THEN AuthReturns(authenticateCatch("Invalid URL"), cs)
                  ELSE /\ pc' = "xmlAuth"
                       /\ calls' = Issue(cs, Call("xml",
                                         Endpoint(baseUrl, "/xmlrpc/2/common"),
                                         "authenticate", [args |-> "credentials"]))
                       /\ UNCHANGED <<uid, count, orderIds, result>>
       ELSE AuthReturns(authenticateXMLCallback(XmlAuthAnswer),
                        Answer(calls, XmlAuthAnswer))
    /\ UNCHANGED <<op, args, remote, earlier, other, server, dash>>

JsonCountReply ==
    /\ pc = "jsonCount"
    /\ \E r \in JsonAnswers(baseUrl, JsonCountAnswers) :
         LET c == jsonCountStep(r)
             cs == Answer(calls, r)
         IN  IF c.k = "throw"
             THEN FallBackToXML(cs)
             ELSE /\ count' = c.v
                  /\ pc' = "jsonRead"
                  /\ \E id \in remote.requestIds :
                        calls' = Issue(cs, JsonCall(Endpoint(baseUrl, "/jsonrpc"),
                                                    "search_read",
                                                    [limit |-> args.limit,
                                                     offset |-> args.offset],
                                                    id))
                  /\ UNCHANGED <<uid, orderIds, result>>
    /\ UNCHANGED <<op, args, remote, earlier, other, server, dash>>

JsonReadReply ==
    /\ pc = "jsonRead"
    /\ \E r \in JsonAnswers(baseUrl, JsonReadAnswers) :
         LET c == jsonReadStep(r, count)
             cs == Answer(calls, r)
         IN  IF c.k = "throw"
             THEN FallBackToXML(cs)
             ELSE Finish(c.v, cs)
    /\ UNCHANGED <<op, args, remote, earlier, other, server, dash>>

XmlSearchReply ==
    /\ pc = "xmlSearch"
    /\ remote.xmlSearch # Silent
    /\ LET o == xmlSearchCallback(XmlSearchAnswer)
           cs == Answer(calls, XmlSearchAnswer)
       IN  CASE o.k = "reject" -> Finish(fetchCatch(o.message), cs)
             [] o.k = "resolve" -> Finish(o.v, cs)
             [] o.k = "continue" ->
                  /\ orderIds' = o.v
                  /\ pc' = "xmlCount"
                  /\ calls' = Issue(cs, Call("xml",
                                    Endpoint(baseUrl, "/xmlrpc/2/object"),
                                    "search_count", [filter |-> "all"]))
                  /\ UNCHANGED <<uid, count, result>>
    /\ UNCHANGED <<op, args, remote, earlier, other, server, dash>>

XmlCountReply ==
    /\ pc = "xmlCount"
    /\ remote.xmlCount # Silent
    /\ LET o == xmlCountCallback(XmlCountAnswer)
           cs == Answer(calls, XmlCountAnswer)
       IN  /\ count' = o.v
           /\ pc' = "xmlRead"
           /\ calls' = Issue(cs, Call("xml", Endpoint(baseUrl, "/xmlrpc/2/object"),
                                      "read", [ids |-> orderIds]))
           /\ UNCHANGED <<uid, orderIds, result>>
    /\ UNCHANGED <<op, args, remote, earlier, other, server, dash>>

XmlReadReply ==
    /\ pc = "xmlRead"
    /\ remote.xmlRead # Silent
    /\ LET cb == XmlReadAnswer(orderIds.a)
           o == xmlReadCallback(cb, count)
           cs == Answer(calls, cb)
       IN  CASE o.k = "reject" -> Finish(fetchCatch(o.message), cs)
             [] o.k = "resolve" -> Finish(o.v, cs)
             [] o.k = "uncaught" ->
                  /\ pc' = "crashed"
                  /\ calls' = cs
                  /\ UNCHANGED <<uid, count, orderIds, result>>
    /\ UNCHANGED <<op, args, remote, earlier, other, server, dash>>

Next ==
    \/ Invoke
    \/ AuthReply
    \/ JsonCountReply
    \/ JsonReadReply
    \/ XmlSearchReply
    \/ XmlCountReply
    \/ XmlReadReply

Remotes(tables) ==
    [ orders : tables, xmlAuth : XmlAuthKinds, xmlSearch : XmlSearchKinds,
      xmlCount : XmlCountKinds, xmlRead : XmlReadKinds,
      requestIds : {{1}} ]

\* No browser: the Dashboard component is not mounted.
NoDashboard == [mounted |-> FALSE]

\* No HTTP request: the operation is called directly.
NoRequest == [stage |-> "none"]

Idle ==
    /\ pc = "idle"
    /\ calls = <<>>
    /\ uid = Undefined
    /\ count = Undefined
    /\ orderIds = Undefined
    /\ result = Pending
    /\ earlier = <<>>
    /\ other = NoOther
    /\ server = NoRequest
    /\ dash = NoDashboard

Init ==
    /\ \/ /\ op = "authenticateOdoo"
          /\ args \in [url : Urls, limit : {DefaultLimit}, offset : {DefaultOffset}]
          /\ remote \in [ orders : {<<>>}, xmlAuth : XmlAuthKinds,
                          xmlSearch : {"ids"}, xmlCount : {"count"},
                          xmlRead : {"records"}, requestIds : {{1}} ]
       \/ /\ op = "fetchSalesOrders"
          /\ args \in [url : Urls, limit : Limits, offset : Offsets]
          /\ remote \in Remotes(Tables)
    /\ Idle

Spec == Init /\ [][Next]_vars


(***************************************************************************)
(* Partially populated and malformed raw records, for the normalization    *)
(* rules: one record in the table, fetched with the default limit over     *)
(* either transport.                                                       *)
(***************************************************************************)
TotalValues ==
    { Undefined, Null, Bool(FALSE), Num(0), Num(250), Str("250"), Str("0"),
      Str("abc"), Str("Infinity") }
UntaxedValues == { Undefined, Null, Num(120), Str("120"), Str("abc") }
TaxValues == { Undefined, Null, Num(18), Str("abc") }

AmountOrders ==
    { With(FullOrder(1), [ amount_total |-> t, amount_untaxed |-> u,
                           amount_tax |-> x ]) :
        t \in TotalValues, u \in UntaxedValues, x \in TaxValues }

PartnerValues == { Undefined, Null, Bool(FALSE), Pair(7, "Acme Co"), Num(7) }
UserValues == { Undefined, Bool(FALSE), Pair(2, "Mitchell Admin") }
TeamValues == { Null, Pair(1, "Sales") }
TextValues == { Undefined, Null, Bool(FALSE), Str("PO-1") }
LineValues == { Undefined, Bool(FALSE), Arr(<<>>), Arr(<<Num(11), Num(12)>>) }
CurrencyValues ==
    { Undefined, Null, Bool(FALSE), Num(0), Str(""), Pair(3, "USD"),
      Str("EUR"), Num(3), Arr(<<>>), Arr(<<Num(3)>>) }

RelationOrders ==
    { With(SparseOrder(1), [ partner_id |-> p, user_id |-> u, team_id |-> m,
                             order_line |-> l ]) :
        p \in PartnerValues, u \in UserValues, m \in TeamValues,
        l \in LineValues }

TextOrders ==
    { With(FullOrder(1), [ client_order_ref |-> r, note |-> n,
                           currency_id |-> c ]) :
        r \in TextValues, n \in TextValues, c \in CurrencyValues }

RawOrders == AmountOrders \cup RelationOrders \cup TextOrders

InitNorm ==
    /\ op = "fetchSalesOrders"
    /\ args = [ url |-> Url(<<"https://demo.odoo.com">>),
                limit |-> DefaultLimit, offset |-> DefaultOffset ]
    /\ remote \in [ orders : { <<o>> : o \in RawOrders }, xmlAuth : {"uid"},
                    xmlSearch : {"ids"}, xmlCount : XmlCountKinds,
                    xmlRead : {"records"}, requestIds : {{1}} ]
    /\ Idle

SpecNorm == InitNorm /\ [][Next]_vars

(***************************************************************************)
(* Two invocations of fetchSalesOrders, one after the other, with the same *)
(* arguments against the same remote.  The locals of the first invocation  *)
(* are gone when the second starts; its calls and its result are kept in   *)
(* earlier.                                                                *)
(***************************************************************************)
InvokeAgain ==
    /\ pc = "done"
    /\ earlier = <<>>
    /\ earlier' = <<[calls |-> calls, result |-> result]>>
    /\ pc' = "idle"
    /\ calls' = <<>>
    /\ uid' = Undefined
    /\ count' = Undefined
    /\ orderIds' = Undefined
    /\ result' = Pending
    /\ UNCHANGED <<op, args, remote, other, server, dash>>

NextTwice ==
    \/ InvokeAgain
    \/ Invoke
    \/ AuthReply
    \/ JsonCountReply
    \/ JsonReadReply
    \/ XmlSearchReply
    \/ XmlCountReply
    \/ XmlReadReply

InitTwice ==
    /\ op = "fetchSalesOrders"
    /\ args = [ url |-> Url(<<"https://demo.odoo.com">>),
                limit |-> 1, offset |-> 0 ]
    /\ remote \in [ orders : { [i \in 1..2 |-> SampleOrder(i)] },
                    xmlAuth : {"uid"}, xmlSearch : {"ids"},
                    xmlCount : XmlCountKinds, xmlRead : {"records"},
                    requestIds : {{1, 2}} ]
    /\ Idle

SpecTwice == InitTwice /\ [][NextTwice]_vars

(***************************************************************************)
(* Two invocations in flight at once.  JavaScript runs one continuation at *)
(* a time: the invocation that holds the variables runs, the other one is  *)
(* suspended at an await or a callback with its own arguments and locals   *)
(* (other), and Switch hands the turn over.  The module has no variable    *)
(* outside its functions, so nothing but the remote is common to the two.  *)
(***************************************************************************)
Running ==
    [ op |-> op, args |-> args, pc |-> pc, calls |-> calls, uid |-> uid,
      count |-> count, orderIds |-> orderIds, result |-> result ]

Switch ==
    /\ other # NoOther
    /\ other' = Running
    /\ op' = other.op
    /\ args' = other.args
    /\ pc' = other.pc
    /\ calls' = other.calls
    /\ uid' = other.uid
    /\ count' = other.count
    /\ orderIds' = other.orderIds
    /\ result' = other.result
    /\ UNCHANGED <<remote, earlier, server, dash>>

NextPair ==
    \/ Switch
    \/ Invoke
    \/ AuthReply
    \/ JsonCountReply
    \/ JsonReadReply
    \/ XmlSearchReply
    \/ XmlCountReply
    \/ XmlReadReply

PairUrls == { Url(<<"https://demo.odoo.com">>),
             Url(<<"https://demo.odoo.com", "/", "/">>) }

InitPair ==
    /\ op \in {"authenticateOdoo", "fetchSalesOrders"}
    /\ args = [ url |-> Url(<<"https://demo.odoo.com">>),
                limit |-> 1, offset |-> 0 ]
    /\ remote \in [ orders : { [i \in 1..2 |-> SampleOrder(i)] },
                    xmlAuth : {"uid"}, xmlSearch : {"ids"},
                    xmlCount : {"count"}, xmlRead : {"records"},
                    requestIds : {{1}} ]
    /\ pc = "idle"
    /\ calls = <<>>
    /\ uid = Undefined
    /\ count = Undefined
    /\ orderIds = Undefined
    /\ result = Pending
    /\ earlier = <<>>
    /\ server = NoRequest
    /\ dash = NoDashboard
    /\ other \in [ op : {"fetchSalesOrders"},
                   args : [ url : PairUrls, limit : {1}, offset : {0} ],
                   pc : {"idle"}, calls : {<<>>}, uid : {Undefined},
                   count : {Undefined}, orderIds : {Undefined},
                   result : {Pending} ]

SpecPair == InitPair /\ [][NextPair]_vars

(***************************************************************************)
(* The express server.  A request runs through the body parser, the        *)
(* /health route, the /api/odoo router, and ends in the router's response, *)
(* the error middleware or the 404 handler.  The router (routes/odoo.js)   *)
(* is the relay endpoint handler: its two operations validate the          *)
(* credentials, call the module and map the result to a response.          *)
(***************************************************************************)
Routes ==
    { "GET /health", "POST /api/odoo/connect", "POST /api/odoo/sales",
      "POST /api/odoo/logout", "GET /" }

RelayRoutes == { "POST /api/odoo/connect", "POST /api/odoo/sales" }

PostRoutes == RelayRoutes \cup { "POST /api/odoo/logout" }

\* A request body express.json() cannot parse.
Malformed == [t |-> "malformed"]

FieldValues == { Undefined, Str(""), Str("x") }

Bodies ==
    [ url : { Undefined, Url(<<>>), Url(<<"https://demo.odoo.com">>) },
      dbName : FieldValues, username : FieldValues, password : FieldValues,
      limit : { Undefined, Num(1) } ]

\* The errors that reach the error middleware: err.status and err.message.
Err(status, message) == [status |-> status, message |-> message]

BodyParseError == Err(Num(400), Str("Unexpected end of JSON input"))

HandlerErrors ==
    { Err(Undefined, Str("boom")), Err(Undefined, Str("")),
      Err(Num(503), Undefined), Err(Num(422), Str("Unprocessable")) }

Respond(status, json) == [status |-> status, json |-> json]

health ==
    Respond(Num(200), [ status |-> Str("ok"),
                        message |-> Str("NetZero Backend API is running") ])

errorMiddleware(err) ==
    Respond(OrElse(err.status, Num(500)),
            [ success |-> FALSE,
              error |-> OrElse(err.message, Str("Internal server error")) ])

notFound ==
    Respond(Num(404), [success |-> FALSE, error |-> Str("Route not found")])

\* Variant: a field only has to be there, it may be empty.
validCredentialsAllowsEmpty(body) ==
    \A f \in {"url", "dbName", "username", "password"} : body[f] # Undefined

\* The four required fields are present and non-empty.
validCredentials(body) ==
    \A f \in {"url", "dbName", "username", "password"} :
        /\ body[f].t = "str"
        /\ IF "c" \in DOMAIN body[f] THEN body[f].c # <<>> ELSE body[f].s # ""

validationFailure ==
    Respond(Num(400),
            [ success |-> FALSE,
              error |-> Str("url, dbName, username and password are required") ])

\* The statuses the router answers a failed remote operation with.
RemoteFailureStatuses == { Num(401), Num(500) }

connectResponse(authResult, status) ==
    IF authResult.success
    THEN Respond(Num(200),
                 [success |-> TRUE, authenticatedUser |-> authResult.uid])
    ELSE Respond(status, [success |-> FALSE, error |-> Str(authResult.error)])

salesResponse(fetchResult, status) ==
    IF fetchResult.success
    THEN Respond(Num(200), fetchResult)
    ELSE Respond(status, [success |-> FALSE, error |-> Str(fetchResult.error)])

Send(response, err) ==
    /\ server' = [server EXCEPT !.stage = "responded",
                                !.response = response, !.passed = err]
    /\ UNCHANGED <<op, args, pc>>

\* The request goes down the middleware stack until a response is sent or
\* the router has called the module.
Dispatch ==
    /\ server.stage = "received"
    /\ IF server.route \in PostRoutes /\ server.body = Malformed
       THEN Send(errorMiddleware(BodyParseError), BodyParseError)
       ELSE IF server.route = "GET /health"
       THEN Send(health, NoError)
       ELSE IF server.route \notin RelayRoutes
       THEN Send(notFound, NoError)
       ELSE IF ~validCredentials(server.body)
       THEN Send(validationFailure, NoError)
       ELSE IF IsError(server.fault)
       THEN Send(errorMiddleware(server.fault), server.fault)
       ELSE /\ op' = IF server.route = "POST /api/odoo/connect"
                     THEN "authenticateOdoo" ELSE "fetchSalesOrders"
            /\ args' = [ url |-> server.body.url,
                         limit |-> IF server.body.limit = Undefined
                                   THEN DefaultLimit ELSE server.body.limit.n,
                         offset |-> DefaultOffset ]
            /\ pc' = "idle"
            /\ server' = [server EXCEPT !.stage = "handling"]
    /\ UNCHANGED <<remote, calls, uid, count, orderIds, result, earlier,
                   other, dash>>

\* The module has returned to the router, or an exception nobody catches
\* has ended the process.
Settle ==
    /\ server.stage = "handling"
    /\ pc \in {"done", "crashed"}
    /\ IF pc = "crashed"
       THEN server' = [server EXCEPT !.stage = "died"]
       ELSE \E status \in RemoteFailureStatuses :
              server' = [server EXCEPT
                           !.stage = "responded",
                           !.response =
                              IF op = "authenticateOdoo"
                              THEN connectResponse(result, status)
                              ELSE salesResponse(result, status)]
    /\ UNCHANGED <<op, args, remote, pc, calls, uid, count, orderIds, result,
                   earlier, other, dash>>

NextServer ==
    \/ Dispatch
    \/ Settle
    \/ Invoke
    \/ AuthReply
    \/ JsonCountReply
    \/ JsonReadReply
    \/ XmlSearchReply
    \/ XmlCountReply
    \/ XmlReadReply

NoResponse == [none |-> TRUE]

InitServer ==
    /\ server \in [ stage : {"received"}, route : Routes,
                    body : Bodies \cup {Malformed},
                    fault : {NoError} \cup HandlerErrors,
                    response : {NoResponse}, passed : {NoError} ]
    /\ op = "none"
    /\ args = [url |-> Undefined, limit |-> DefaultLimit, offset |-> DefaultOffset]
    /\ remote \in [ orders : { <<SampleOrder(1)>> }, xmlAuth : {"uid"},
                    xmlSearch : {"ids"}, xmlCount : {"count"},
                    xmlRead : {"records", "nullEntry"}, requestIds : {{1}} ]
    /\ pc = "off"
    /\ calls = <<>>
    /\ uid = Undefined
    /\ count = Undefined
    /\ orderIds = Undefined
    /\ result = Pending
    /\ earlier = <<>>
    /\ other = NoOther
    /\ dash = NoDashboard

SpecServer == InitServer /\ [][NextServer]_vars

(***************************************************************************)
(* The Dashboard component.  dash holds the state of the component (the    *)
(* useState values the Odoo connection uses), the localStorage entries of  *)
(* the logged-in user, the requests to the backend that are in flight, and *)
(* whether the load effect is due: its dependencies currentUser and        *)
(* reconnectOdoo change when odooCredentials becomes another object.       *)
(* Every handler is an operator from the component before it runs to the   *)
(* component after it has run up to its next await.  dash.reconnects tells *)
(* how often reconnectOdoo was called: 0, 1, or 2 for twice or more.       *)
(***************************************************************************)
MaxPending == 2

\* localStorage.getItem: null, a string JSON.parse reads, or one it rejects.
Absent == [absent |-> TRUE]
Text(v) == [text |-> v]
Corrupt == [corrupt |-> TRUE]
Parses(item) == "text" \in DOMAIN item
parse(item) == item.text

NoKeys == [credentials |-> Absent, connection |-> Absent, sales |-> Absent]

Credentials ==
    [url |-> "x", dbName |-> "x", username |-> "x", password |-> "x"]
ConnectData == [success |-> TRUE, authenticatedUser |-> 5]
SalesData == [success |-> TRUE, data |-> <<"S00001">>, count |-> 1]

\* What awaiting fetch(...) and response.json() gives.
HttpReply(ok, data) == [k |-> "response", ok |-> ok, data |-> data]

\* fetch rejects, response.json() rejects, or the body is read: the answer
\* hoped for, or a refusal with or without an error text.
Outcomes(okData) ==
    LET Refusal == [success |-> FALSE, error |-> "Invalid credentials"]
    IN  { [k |-> "reject", name |-> "TypeError", message |-> "Failed to fetch"],
          [k |-> "reject", name |-> "SyntaxError",
           message |-> "Unexpected token <"],
          HttpReply(TRUE, okData), HttpReply(TRUE, Refusal),
          HttpReply(FALSE, Refusal), HttpReply(FALSE, [success |-> FALSE]) }

\* data.error || fallback
ErrorOr(data, fallback) ==
    IF "error" \in DOMAIN data /\ data.error # "" THEN data.error ELSE fallback

RequiredFieldsMessage ==
    "Please fill in all required fields: URL, DB Name, Username, and Password."
\* The first words of the message.
BackendDownMessage == "Cannot connect to backend server. Please ensure:"

\* The requests in flight, by the code that awaits them.
Awaits ==
    { "connect", "reconnect", "erp",
      "sales:connect", "sales:reconnect", "sales:refresh" }

InFlight(d) ==
    d.pending["connect"] + d.pending["reconnect"] + d.pending["erp"]
    + d.pending["sales:connect"] + d.pending["sales:reconnect"]
    + d.pending["sales:refresh"]

Sent(d, await) == [d EXCEPT !.pending[await] = @ + 1]
Arrived(d, await) == [d EXCEPT !.pending[await] = @ - 1]

\* setOdooCredentials(v): another object makes new fetchSalesData and
\* reconnectOdoo callbacks, so the load effect runs after the render.
setOdooCredentials(d, v) ==
    [d EXCEPT !.odooCredentials = v,
              !.effectDue = @ \/ v # Null \/ d.odooCredentials # Null]

removeKeys(d) == IF d.user # Null THEN [d EXCEPT !.storage = NoKeys] ELSE d

\* fetchSalesData, up to await fetch.
fetchSalesData(d, credentials, await) ==
    LET creds == IF credentials # Null THEN credentials ELSE d.odooCredentials
    IN  IF creds = Null
        THEN d
        ELSE Sent([d EXCEPT !.salesLoading = TRUE], await)

\* fetchSalesData, from the response to the end.
fetchSalesDataReply(d, r) ==
    IF r.k = "response" /\ r.ok /\ r.data.success
    THEN [d EXCEPT !.salesData = r.data,
                   !.storage.sales = IF d.user # Null THEN Text(r.data) ELSE @,
                   !.salesLoading = FALSE]
    ELSE [d EXCEPT !.salesLoading = FALSE]

\* reconnectOdoo, up to await fetch.
reconnectOdoo(d, credentials) ==
    IF credentials = Null
    THEN d
    ELSE [Sent(d, "reconnect") EXCEPT
            !.reconnects = IF @ = 0 THEN 1 ELSE 2]

\* Variant: a request that throws clears the saved credentials too.
reconnectOdooReplyClearsOnThrow(d, r) ==
    IF r.k = "response" /\ r.ok /\ r.data.success
    THEN fetchSalesData(
            [d EXCEPT !.connectionData = r.data,
                      !.storage.connection =
                          IF d.user # Null THEN Text(r.data) ELSE @],
            Credentials, "sales:reconnect")
    ELSE [setOdooCredentials(removeKeys(d), Null) EXCEPT
            !.connectionData = Null, !.salesData = Null]

\* reconnectOdoo, from the response to its next await or its end.
reconnectOdooReply(d, r) ==
    IF r.k = "reject"
    THEN d
    ELSE IF r.ok /\ r.data.success
    THEN fetchSalesData(
            [d EXCEPT !.connectionData = r.data,
                      !.storage.connection =
                          IF d.user # Null THEN Text(r.data) ELSE @],
            Credentials, "sales:reconnect")
    ELSE [setOdooCredentials(removeKeys(d), Null) EXCEPT
            !.connectionData = Null, !.salesData = Null]

disconnectOdoo(d) ==
    [setOdooCredentials(removeKeys(d), Null) EXCEPT
        !.connectionData = Null, !.salesData = Null]

\* The effect that loads the saved credentials.
loadEffect(d) ==
    LET ran == [d EXCEPT !.effectDue = FALSE]
        saved == d.storage
    IN  IF d.user = Null \/ saved.credentials = Absent
        THEN ran
        ELSE IF ~Parses(saved.credentials)
        THEN removeKeys(ran)
        ELSE LET credentials == parse(saved.credentials)
                 d1 == setOdooCredentials(ran, credentials)
                 d2 == IF saved.connection # Absent /\ Parses(saved.connection)
                       THEN [d1 EXCEPT
                               !.connectionData = parse(saved.connection)]
                       ELSE d1
                 d3 == IF saved.sales # Absent /\ Parses(saved.sales)
                       THEN [d2 EXCEPT !.salesData = parse(saved.sales)]
                       ELSE d2
             IN  IF saved.connection # Absent /\ ~Parses(saved.connection)
                 THEN removeKeys(d1)
                 ELSE IF saved.sales # Absent /\ ~Parses(saved.sales)
                 THEN removeKeys(d2)
                 ELSE reconnectOdoo(d3, credentials)

\* The connect form when it is submitted: the Odoo form with no, one or
\* every required field left empty, and the forms of the other systems.
Forms ==
    LET FieldTexts == {"", "x"}
    IN
    { f \in [ erp : {"ODOO"}, method : {"none"}, url : FieldTexts,
              dbName : FieldTexts, username : FieldTexts,
              password : FieldTexts, apiKey : {""}, secret : {""} ] :
        Cardinality({ n \in {"url", "dbName", "username", "password"} :
                        f[n] = "" }) \in {0, 1, 4} }
    \cup
    [ erp : {"ERPNEXT"}, method : {"URL", "URL_SECRET", "USER_PASS"},
      url : FieldTexts, dbName : {""}, username : {"x"}, password : {"x"},
      apiKey : FieldTexts, secret : {"x"} ]

\* handleApiConnect: catch and finally.
connectFailed(d, name, message) ==
    [d EXCEPT
       !.connectionError =
          IF message = "Failed to fetch" \/ name = "TypeError"
          THEN BackendDownMessage
          ELSE IF message # "" THEN message
          ELSE "Failed to connect. Please check your credentials and try again.",
       !.connectionLoading = FALSE]

refuse(d, message) ==
    [d EXCEPT !.connectionError = message, !.connectionLoading = FALSE]

\* Variant: the Odoo form is sent when only the url is filled in.
handleApiConnectUrlOnly(d, form) ==
    LET started == [d EXCEPT !.connectionLoading = TRUE,
                             !.connectionError = "",
                             !.connectionData = Null,
                             !.salesData = Null]
    IN  IF form.url = ""
        THEN refuse(started, RequiredFieldsMessage)
        ELSE Sent(started, IF form.erp = "ODOO" THEN "connect" ELSE "erp")

\* handleApiConnect, up to its return or its await fetch.
handleApiConnect(d, form) ==
    LET started == [d EXCEPT !.connectionLoading = TRUE,
                             !.connectionError = "",
                             !.connectionData = Null,
                             !.salesData = Null]
        secret == IF form.method = "URL_SECRET"
                  THEN form.apiKey \o ":" \o form.secret
                  ELSE IF form.method = "USER_PASS"
                  THEN form.username \o ":" \o form.password
                  ELSE ""
    IN  IF form.erp = "ODOO"
        THEN IF form.url = "" \/ form.dbName = "" \/ form.username = ""
                \/ form.password = ""
             THEN refuse(started, RequiredFieldsMessage)
             ELSE Sent(started, "connect")
        ELSE IF form.method = "URL"
        THEN refuse(started,
                    "ERPNext requires authentication. "
                    \o "Please use Key-Secret or Username & Password.")
        ELSE IF form.method = "URL_SECRET"
                /\ (form.apiKey = "" \/ form.secret = "")
        THEN refuse(started, "Please fill in both API Key and Secret.")
        ELSE IF form.url = "" \/ secret = ""
        THEN refuse(started, "Please fill in all required fields.")
        ELSE Sent(started, "erp")

\* handleApiConnect, from the response of /api/odoo/connect on.
handleApiConnectReply(d, r) ==
    IF r.k = "reject"
    THEN connectFailed(d, r.name, r.message)
    ELSE IF ~r.ok
    THEN connectFailed(d, "Error", ErrorOr(r.data, "Failed to connect to Odoo"))
    ELSE IF ~r.data.success
    THEN connectFailed(d, "Error", ErrorOr(r.data, "Connection failed"))
    ELSE LET connected ==
                 setOdooCredentials([d EXCEPT !.connectionData = r.data],
                                    Credentials)
             saved ==
                 IF d.user # Null
                 THEN [connected EXCEPT
                         !.storage.credentials = Text(Credentials),
                         !.storage.connection = Text(r.data)]
                 ELSE connected
         IN  fetchSalesData(saved, Credentials, "sales:connect")

\* handleApiConnect, after await fetchSalesData(credentials).
handleApiConnectDone(d) ==
    [d EXCEPT !.timer = TRUE, !.connectionLoading = FALSE]

\* handleApiConnect, from the response of /api/erp/connect on.
handleErpReply(d, r) ==
    IF r.k = "reject"
    THEN connectFailed(d, r.name, r.message)
    ELSE IF ~r.ok
    THEN connectFailed(d, "Error",
                       ErrorOr(r.data, "Failed to connect to ERP system"))
    ELSE IF ~r.data.success
    THEN connectFailed(d, "Error", ErrorOr(r.data, "Connection failed"))
    ELSE [d EXCEPT !.connectionData = r.data, !.connectionLoading = FALSE]

closeConnectModal(d) ==
    [d EXCEPT !.connectionError = "", !.connectionLoading = FALSE,
              !.timer = FALSE]

\* The Refresh and Disconnect buttons are rendered with the sales table.
TableShown(d) == d.salesData # Null /\ Len(d.salesData.data) > 0

Backend ==
    <<op, args, remote, pc, calls, uid, count, orderIds, result, earlier,
      other, server>>

\* event is the handler code that has just run, with what it was given.
Ran(d, event) == dash' = [d EXCEPT !.last = event]

Event(name, given) == [name |-> name, given |-> given]

LoadEffect ==
    /\ dash.mounted /\ dash.effectDue
    /\ InFlight(dash) < MaxPending
    /\ Ran(loadEffect(dash), Event("loadEffect", dash.storage))
    /\ UNCHANGED Backend

Submit ==
    /\ dash.mounted /\ ~dash.connectionLoading
    /\ InFlight(dash) < MaxPending
    /\ \E form \in Forms :
          Ran([handleApiConnect(dash, form) EXCEPT !.disconnected = FALSE],
              Event("handleApiConnect", form))
    /\ UNCHANGED Backend

Refresh ==
    /\ dash.mounted /\ TableShown(dash) /\ ~dash.salesLoading
    /\ InFlight(dash) < MaxPending
    /\ Ran(fetchSalesData(dash, Null, "sales:refresh"),
           Event("fetchSalesData", Null))
    /\ UNCHANGED Backend

Disconnect ==
    /\ dash.mounted /\ TableShown(dash)
    /\ Ran([disconnectOdoo(dash) EXCEPT
              !.disconnected = dash.user # Null
                               /\ dash.pending["connect"] = 0
                               /\ dash.pending["sales:connect"] = 0],
           Event("disconnectOdoo", Null))
    /\ UNCHANGED Backend

ConnectReply ==
    /\ dash.mounted
    /\ \/ /\ dash.pending["connect"] > 0
          /\ \E r \in Outcomes(ConnectData) :
                Ran(handleApiConnectReply(Arrived(dash, "connect"), r),
                    Event("connect", r))
       \/ /\ dash.pending["erp"] > 0
          /\ \E r \in Outcomes(ConnectData) :
                Ran(handleErpReply(Arrived(dash, "erp"), r), Event("erp", r))
    /\ UNCHANGED Backend

ReconnectReply ==
    /\ dash.mounted
    /\ dash.pending["reconnect"] > 0
    /\ \E r \in Outcomes(ConnectData) :
          Ran(reconnectOdooReply(Arrived(dash, "reconnect"), r),
              Event("reconnect", r))
    /\ UNCHANGED Backend

SalesReply ==
    /\ dash.mounted
    /\ \E await \in {"sales:connect", "sales:reconnect", "sales:refresh"} :
          /\ dash.pending[await] > 0
          /\ \E r \in Outcomes(SalesData) :
                LET d == fetchSalesDataReply(Arrived(dash, await), r)
                IN  Ran(IF await = "sales:connect"
                        THEN handleApiConnectDone(d) ELSE d,
                        Event(await, r))
    /\ UNCHANGED Backend

CloseModalTimer ==
    /\ dash.mounted /\ dash.timer
    /\ Ran(closeConnectModal(dash), Event("closeConnectModal", Null))
    /\ UNCHANGED Backend

NextDash ==
    \/ LoadEffect
    \/ Submit
    \/ Refresh
    \/ Disconnect
    \/ ConnectReply
    \/ ReconnectReply
    \/ SalesReply
    \/ CloseModalTimer

InitDash ==
    /\ dash \in
         [ mounted : {TRUE},
           user : { Null, [uid |-> "u1"] },
           storage : [ credentials : { Absent, Corrupt, Text(Credentials),
                                       Text(Null) },
                       connection : { Absent, Corrupt, Text(ConnectData) },
                       sales : { Absent, Corrupt, Text(SalesData) } ],
           odooCredentials : {Null}, connectionData : {Null},
           salesData : {Null}, salesLoading : {FALSE},
           connectionLoading : {FALSE}, connectionError : {""},
           effectDue : {TRUE}, pending : {[a \in Awaits |-> 0]},
           reconnects : {0}, timer : {FALSE}, disconnected : {FALSE},
           last : {Event("mount", Null)} ]
    /\ dash.user = Null => dash.storage = NoKeys
    /\ op = "none"
    /\ args = [url |-> Undefined, limit |-> DefaultLimit, offset |-> DefaultOffset]
    /\ remote = [ orders |-> <<>>, xmlAuth |-> "uid", xmlSearch |-> "ids",
                  xmlCount |-> "count", xmlRead |-> "records",
                  requestIds |-> {1} ]
    /\ pc = "off"
    /\ calls = <<>>
    /\ uid = Undefined
    /\ count = Undefined
    /\ orderIds = Undefined
    /\ result = Pending
    /\ earlier = <<>>
    /\ other = NoOther
    /\ server = NoRequest

SpecDash == InitDash /\ [][NextDash]_vars

(***************************************************************************)
(* A remote that may leave any XML-RPC call unanswered.  An unanswered     *)
(* JSON-RPC call is rejected by the axios timeout (AuthTimeout,            *)
(* DataTimeout); the XML-RPC clients are created without a timeout.        *)
(***************************************************************************)
InitTimeout ==
    /\ op \in {"authenticateOdoo", "fetchSalesOrders"}
    /\ args = [ url |-> Url(<<"https://demo.odoo.com">>),
                limit |-> DefaultLimit, offset |-> DefaultOffset ]
    /\ remote \in [ orders : { [i \in 1..2 |-> SampleOrder(i)] },
                    xmlAuth : XmlAuthKinds \cup {Silent},
                    xmlSearch : XmlSearchKinds \cup {Silent},
                    xmlCount : XmlCountKinds \cup {Silent},
                    xmlRead : XmlReadKinds \cup {Silent},
                    requestIds : {{1}} ]
    /\ Idle

SpecTimeout == InitTimeout /\ [][Next]_vars


(***************************************************************************)
(* Vocabulary of the properties.                                           *)
(***************************************************************************)
Done == pc = "done"

CallIndexes == 1..Len(calls)

IsCall(i, transport, methods) ==
    calls[i].transport = transport /\ calls[i].method \in methods

Answered(i) == calls[i].reply # Pending

\* A reply to an authenticate call that reports a truthy uid.
ReportsUid(r) ==
    \/ r.k = "response" /\ NotNullish(r.data) /\ Truthy(Get(r.data, "result"))
    \/ r.k = "callback" /\ ~IsError(r.error) /\ Truthy(r.value)

AuthSucceeded ==
    \E i \in CallIndexes :
        calls[i].method = "authenticate" /\ Answered(i)
        /\ ReportsUid(calls[i].reply)

JsonAuthFailed ==
    \E i \in CallIndexes :
        IsCall(i, "json", {"authenticate"}) /\ Answered(i)
        /\ ~ReportsUid(calls[i].reply)

DataMethods == {"search_count", "search_read", "search", "read"}

XmlUsed == \E i \in CallIndexes : calls[i].transport = "xml"

\* The records the remote has for the page that was asked for.
RawPage == Page(remote.orders, args.limit, args.offset)

\* What fetchSalesWithXMLRPC would settle with against this remote.
XmlWould ==
    LET s == xmlSearchCallback(XmlSearchAnswer)
    IN  IF s.k # "continue" THEN s
        ELSE xmlReadCallback(XmlReadAnswer(s.v.a),
                             xmlCountCallback(XmlCountAnswer).v)

(***************************************************************************)
(* C1.  authenticateOdoo: whenever the JSON-RPC authentication attempt     *)
(* fails, an XML-RPC authenticate call is attempted next, so that when the *)
(* XML-RPC transport would report a valid uid the operation returns        *)
(* {success: true, uid}.                                                   *)
(***************************************************************************)
C1_JsonAuthFailureFallsBackToXml ==
    (op = "authenticateOdoo" /\ Done /\ JsonAuthFailed /\ remote.xmlAuth = "uid")
        => /\ \E i \in CallIndexes : IsCall(i, "xml", {"authenticate"})
           /\ result = Success(RemoteUid)

(***************************************************************************)
(* C2.  fetchSalesOrders: when authentication fails, whatever the cause,   *)
(* the operation returns {success: false, error: "Authentication failed"}  *)
(* and no data call is ever issued on either transport.                    *)
(***************************************************************************)
C2_AuthFailureShortCircuits ==
    op = "fetchSalesOrders" =>
        /\ (\E i \in CallIndexes : calls[i].method \in DataMethods)
               => AuthSucceeded
        /\ (Done /\ ~AuthSucceeded) => result = Failure("Authentication failed")

C2_Witness ==
    /\ op = "fetchSalesOrders" /\ Done /\ ~AuthSucceeded
    /\ Len(calls) = 1
    /\ calls[1].reply = Result(Bool(FALSE))
    /\ result = Failure("Authentication failed")

(***************************************************************************)
(* C3.  fetchSalesOrders after a successful authentication: when the       *)
(* JSON-RPC path fails (one of its two HTTP calls errors, times out or     *)
(* returns an unparsable body) and the XML-RPC path would succeed, the     *)
(* result is the XML-RPC path's {success: true, data, count}.              *)
(***************************************************************************)
JsonFetchFailed ==
    \E i \in CallIndexes :
        /\ IsCall(i, "json", {"search_count", "search_read"}) /\ Answered(i)
        /\ calls[i].reply.k = "reject" \/ calls[i].reply = UnparsableBody

C3_JsonFetchFailureFallsBackToXml ==
    (op = "fetchSalesOrders" /\ Done /\ AuthSucceeded /\ JsonFetchFailed
       /\ remote.xmlSearch = "ids" /\ remote.xmlRead = "records"
       /\ XmlWould.k = "resolve")
        => result = XmlWould.v

(***************************************************************************)
(* C4.  Within one invocation the XML-RPC path is attempted at most once,  *)
(* only right after the JSON-RPC path has failed, nothing is attempted     *)
(* after it, and when both paths fail the error returned is the one the    *)
(* XML-RPC path produced.                                                  *)
(***************************************************************************)
\* A JSON-RPC reply on which the JSON path throws.
JsonPathThrowsOn(r) ==
    \/ r.k = "reject"
    \/ r.k = "response" /\ ~NotNullish(r.data)
    \/ r.k = "response" /\ NotNullish(r.data)
         /\ IsArray(Get(r.data, "result"))
         /\ \E j \in 1..Len(Get(r.data, "result").a) :
                ~NotNullish(Get(r.data, "result").a[j])

XmlStarts(method) == { i \in CallIndexes : IsCall(i, "xml", {method}) }

C5_NoExceptionEscapes ==
    /\ pc # "crashed"
    /\ Done =>
          /\ result.success \in BOOLEAN
          /\ ~result.success => DOMAIN result = {"success", "error"}

(***************************************************************************)
(* C6.  fetchSalesOrders never returns an ambiguous empty success: a       *)
(* JSON-RPC reply that carries no usable result (an HTTP-200 envelope with *)
(* an error member and no result) makes the JSON path fail, and            *)
(* {success: true, data: [], count: 0} is returned only when the remote    *)
(* reported zero matching records.                                         *)
(***************************************************************************)
NoUsableResult(i) ==
    /\ IsCall(i, "json", {"search_count", "search_read"})
    /\ Answered(i)
    /\ calls[i].reply = ErrorEnvelope

RemoteReportedZero ==
    \E i \in CallIndexes :
        /\ Answered(i)
        /\ \/ calls[i].reply = Result(Num(0))
           \/ calls[i].reply = Result(Arr(<<>>))
           \/ calls[i].reply = Callback(NoError, Arr(<<>>))

C6_NoAmbiguousEmptySuccess ==
    (op = "fetchSalesOrders" /\ Done) =>
        /\ (\E i \in CallIndexes : NoUsableResult(i))
              => (XmlUsed \/ ~result.success)
        /\ result = Fetched(<<>>, Num(0)) => RemoteReportedZero


(***************************************************************************)
(* C7.  In every record of every successful fetchSalesOrders result, total *)
(* is a finite number, whatever amount_total, amount_untaxed and           *)
(* amount_tax are (absent, null, numbers, numeric or non-numeric strings). *)
(***************************************************************************)
C7_TotalIsFinite ==
    (op = "fetchSalesOrders" /\ Done /\ result.success) =>
        \A i \in 1..Len(result.data) : IsFinite(result.data[i].total)

(***************************************************************************)
(* C8.  Monetary total rule: total is Number(amount_total) when that is a  *)
(* finite nonzero number; otherwise it is untaxed + tax, where             *)
(* amount_untaxed and amount_tax each count as 0 when absent or            *)
(* non-numeric.                                                            *)
(***************************************************************************)
ZeroUnlessNumeric(v) ==
    IF NotNullish(v) /\ IsFinite(ToNumber(v)) THEN ToNumber(v) ELSE Num(0)

RuleTotal(raw) ==
    IF IsFinite(ToNumber(raw.f.amount_total))
       /\ ToNumber(raw.f.amount_total) # Num(0)
    THEN ToNumber(raw.f.amount_total)
    ELSE Plus(ZeroUnlessNumeric(raw.f.amount_untaxed),
              ZeroUnlessNumeric(raw.f.amount_tax))

C8_TotalRule ==
    (op = "fetchSalesOrders" /\ Done /\ result.success) =>
        \A i \in 1..Len(result.data) :
            result.data[i].total = RuleTotal(RawPage[i])

(***************************************************************************)
(* C9.  Normalization never fails on a partially populated record: with    *)
(* any subset of the fields absent, null or false it completes without     *)
(* throwing, the fetch returns success: true, and the missing fields get   *)
(* customer/salesperson/team "N/A", customerId null, reference "",         *)
(* note "" and lineCount 0.                                                *)
(***************************************************************************)
Missing(v) == v \in {Undefined, Null, Bool(FALSE)}

\* A reply that hands the page's records to the path that asked for them.
DeliversRecords(i) ==
    /\ Answered(i)
    /\ \/ /\ IsCall(i, "json", {"search_read"})
          /\ calls[i].reply = Result(Arr(RawPage))
       \/ /\ IsCall(i, "xml", {"read"})
          /\ calls[i].reply = Callback(NoError, Arr(RawPage))

C9_PartialRecordsNormalize ==
    /\ \A i \in CallIndexes :
          DeliversRecords(i) =>
              /\ i = Len(calls) /\ Done /\ result.success
              /\ Len(result.data) = Len(RawPage)
    /\ (op = "fetchSalesOrders" /\ Done /\ result.success) =>
          \A i \in 1..Len(result.data) :
             LET raw == RawPage[i].f
                 out == result.data[i]
             IN  /\ Missing(raw.partner_id) =>
                        out.customer = Str("N/A") /\ out.customerId = Null
                 /\ Missing(raw.user_id) => out.salesperson = Str("N/A")
                 /\ Missing(raw.team_id) => out.team = Str("N/A")
                 /\ Missing(raw.client_order_ref) => out.reference = Str("")
                 /\ Missing(raw.note) => out.note = Str("")
                 /\ Missing(raw.order_line) => out.lineCount = Num(0)

C9_Witness ==
    /\ Done /\ result.success /\ ~XmlUsed
    /\ Len(result.data) = 1
    /\ remote.orders[1].f.partner_id = Null
    /\ remote.orders[1].f.user_id = Undefined
    /\ remote.orders[1].f.order_line = Bool(FALSE)
    /\ result.data[1].customer = Str("N/A")
    /\ result.data[1].customerId = Null
    /\ result.data[1].lineCount = Num(0)

(***************************************************************************)
(* C10.  Relation-field rule: a partner_id that is a pair [id, label]      *)
(* gives customer = label and customerId = id; an absent or falsy          *)
(* partner_id gives customer "N/A" and customerId null; user_id and        *)
(* team_id give salesperson and team the same way, default "N/A".          *)
(***************************************************************************)
IsPair(v) == IsArray(v) /\ Len(v.a) = 2

LabelOf(v) == IF IsPair(v) THEN v.a[2] ELSE Str("N/A")

C10_RelationFields ==
    (op = "fetchSalesOrders" /\ Done /\ result.success) =>
        \A i \in 1..Len(result.data) :
           LET raw == RawPage[i].f
               out == result.data[i]
           IN  /\ (IsPair(raw.partner_id) \/ ~Truthy(raw.partner_id)) =>
                     /\ out.customer = LabelOf(raw.partner_id)
                     /\ out.customerId = IF IsPair(raw.partner_id)
                                         THEN raw.partner_id.a[1] ELSE Null
               /\ (IsPair(raw.user_id) \/ ~Truthy(raw.user_id)) =>
                     out.salesperson = LabelOf(raw.user_id)
               /\ (IsPair(raw.team_id) \/ ~Truthy(raw.team_id)) =>
                     out.team = LabelOf(raw.team_id)

C10_Witness ==
    /\ Done /\ result.success /\ XmlUsed
    /\ Len(result.data) = 1
    /\ remote.orders[1].f.partner_id = Pair(7, "Acme Co")
    /\ remote.orders[1].f.user_id = Bool(FALSE)
    /\ result.data[1].customer = Str("Acme Co")
    /\ result.data[1].customerId = Num(7)
    /\ result.data[1].salesperson = Str("N/A")


(***************************************************************************)
(* C11.  Currency rule: currency is "INR" when currency_id is absent,      *)
(* falsy, a bare numeric id or an array with fewer than two elements; it   *)
(* is the label of a pair [id, label] and the string itself when           *)
(* currency_id is a string; it is never undefined nor a non-string id.     *)
(***************************************************************************)
RuleCurrency(v) ==
    IF ~Truthy(v) THEN Str("INR")
    ELSE IF IsPair(v) THEN v.a[2]
    ELSE IF v.t = "str" THEN v
    ELSE Str("INR")

JsonRepliesUsable ==
    \A i \in CallIndexes :
        (calls[i].transport = "json" /\ Answered(i)
           /\ calls[i].reply.k = "response")
            => /\ NotNullish(calls[i].reply.data)
               /\ calls[i].reply.data.t = "obj"
               /\ "result" \in DOMAIN calls[i].reply.data.f

C12_CountIsRemoteTotal ==
    ( /\ op = "fetchSalesOrders" /\ Done /\ result.success
      /\ JsonRepliesUsable
      /\ remote.xmlSearch = "ids" ) =>
        result.count = Num(Len(remote.orders))

(***************************************************************************)
(* C13.  XML-RPC fetch path: when the search step returns zero ids (an     *)
(* empty or absent list), the path resolves {success: true, data: [],      *)
(* count: 0} and the read step is never issued.                            *)
(***************************************************************************)
ZeroIds(i) ==
    /\ IsCall(i, "xml", {"search"})
    /\ Answered(i)
    /\ ~IsError(calls[i].reply.error)
    /\ calls[i].reply.value \in {Undefined, Arr(<<>>)}

C13_ZeroIdsShortCircuit ==
    \A i \in CallIndexes :
        ZeroIds(i) =>
            /\ i = Len(calls)
            /\ Done
            /\ result = Fetched(<<>>, Num(0))

C13_Witness ==
    /\ Done
    /\ Len(calls) > 0
    /\ Len(remote.orders) > 0
    /\ ZeroIds(Len(calls))
    /\ calls[Len(calls)].reply.value = Arr(<<>>)
    /\ result = Fetched(<<>>, Num(0))

(***************************************************************************)
(* C14.  XML-RPC fetch path: a failure of the search_count step is not     *)
(* fatal (the read step still runs and the result is success: true with    *)
(* count = the number of records returned), a failure of the search step   *)
(* or of the read step makes fetchSalesOrders return {success: false,      *)
(* error} naming that step.                                                *)
(***************************************************************************)
XmlFailed(i, method) ==
    /\ IsCall(i, "xml", {method})
    /\ Answered(i)
    /\ IsError(calls[i].reply.error)

XmlReadDelivered(i) ==
    /\ IsCall(i, "xml", {"read"})
    /\ Answered(i)
    /\ ~IsError(calls[i].reply.error)
    /\ IsArray(calls[i].reply.value)
    /\ \A j \in 1..Len(calls[i].reply.value.a) :
          NotNullish(calls[i].reply.value.a[j])

C14_XmlErrorClassification ==
    \A i \in CallIndexes :
        /\ XmlFailed(i, "search_count") =>
              /\ Len(calls) > i
              /\ IsCall(i + 1, "xml", {"read"})
              /\ XmlReadDelivered(i + 1) =>
                    /\ Done /\ result.success
                    /\ result.count = Num(Len(result.data))
                    /\ Len(result.data) = Len(calls[i + 1].reply.value.a)
        /\ XmlFailed(i, "search") =>
              /\ i = Len(calls) /\ Done
              /\ result = Failure("XML-RPC search failed: "
                                  \o calls[i].reply.error.message)
        /\ XmlFailed(i, "read") =>
              /\ i = Len(calls) /\ Done
              /\ result = Failure("XML-RPC read failed: "
                                  \o calls[i].reply.error.message)

C14_Witness ==
    /\ Done /\ result.success
    /\ Len(calls) > 1
    /\ XmlFailed(Len(calls) - 1, "search_count")
    /\ XmlReadDelivered(Len(calls))
    /\ Len(result.data) = 2
    /\ result.count = Num(2)
    /\ Len(remote.orders) = 3


(***************************************************************************)
(* C15.  Every remote call is individually bounded by a timeout, so every  *)
(* invocation of authenticateOdoo and fetchSalesOrders eventually returns  *)
(* even if the remote never answers: while an invocation has not returned, *)
(* a step of it can still happen (a reply, or the timeout of the pending   *)
(* call).                                                                  *)
(***************************************************************************)
Returned == pc \in {"done", "crashed"}

C15_EveryCallIsBounded == ~Returned => ENABLED Next


(***************************************************************************)
(* C16.  authenticateOdoo returns {success: true, uid: u} exactly when a   *)
(* transport reported a truthy uid u, the request going to the url with    *)
(* one trailing slash removed (url "https://demo.odoo.com/", primary       *)
(* transport reporting 5: {success: true, uid: 5}); a false or absent      *)
(* result yields {success: false, error: "Invalid credentials"}.           *)
(***************************************************************************)
UidOf(r) == IF r.k = "response" THEN Get(r.data, "result") ELSE r.value

AuthCalls == { i \in CallIndexes : calls[i].method = "authenticate" }

\* The reply carries a body whose result is false or missing.
FalseOrAbsentResult(r) ==
    \/ r.k = "response" /\ NotNullish(r.data)
         /\ Get(r.data, "result") \in {Bool(FALSE), Undefined}
    \/ r.k = "callback" /\ ~IsError(r.error)
         /\ r.value \in {Bool(FALSE), Undefined}

\* The chunks of url without its last chunk when that is a slash.
OneSlashRemoved(c) ==
    IF Len(c) > 0 /\ c[Len(c)] = "/" THEN SubSeq(c, 1, Len(c) - 1) ELSE c

C16_AuthResultClassification ==
    (op = "authenticateOdoo" /\ Done) =>
        /\ result.success <=> AuthSucceeded
        /\ \A i \in AuthCalls :
              /\ ReportsUid(calls[i].reply) =>
                    result = Success(UidOf(calls[i].reply))
              /\ (i = Len(calls) /\ FalseOrAbsentResult(calls[i].reply)) =>
                    result = Failure("Invalid credentials")
              /\ calls[i].to.c \in
                    { OneSlashRemoved(args.url.c) \o <<path>> :
                        path \in {"/jsonrpc", "/xmlrpc/2/common"} }

C16_Witness ==
    /\ op = "authenticateOdoo" /\ Done
    /\ args.url = Url(<<"https://demo.odoo.com", "/">>)
    /\ Len(calls) = 1
    /\ calls[1].to = Url(<<"https://demo.odoo.com", "/jsonrpc">>)
    /\ calls[1].reply = Result(Num(5))
    /\ result = Success(Num(5))


(***************************************************************************)
(* C17.  For connect and for sales: when any of url, dbName, username,     *)
(* password is empty or absent in the body, the response is a validation   *)
(* failure (a client-error status and {success: false, error}) and no      *)
(* remote call is made: authenticateOdoo and fetchSalesOrders are not      *)
(* invoked.                                                                *)
(***************************************************************************)
EmptyOrAbsent(v) == v \in {Undefined, Null, Str(""), Url(<<>>)}

IncompleteCredentials ==
    /\ server.route \in RelayRoutes
    /\ server.body # Malformed
    /\ \E f \in {"url", "dbName", "username", "password"} :
          EmptyOrAbsent(server.body[f])

ClientError(status) == status.t = "num" /\ status.n \in 400..499

C17_ValidationBeforeAnyCall ==
    (IncompleteCredentials /\ server.stage # "received") =>
        /\ server.stage = "responded"
        /\ ClientError(server.response.status)
        /\ server.response.json.success = FALSE
        /\ "error" \in DOMAIN server.response.json
        /\ server.response.json.error.t = "str"
        /\ calls = <<>>
        /\ pc = "off"

C17_Witness ==
    /\ server.stage = "responded"
    /\ server.route = "POST /api/odoo/sales"
    /\ server.body # Malformed
    /\ server.body.url = Url(<<"https://demo.odoo.com">>)
    /\ server.body.dbName = Str("x")
    /\ server.body.username = Str("x")
    /\ server.body.password = Str("")
    /\ server.response.status = Num(400)
    /\ calls = <<>>

(***************************************************************************)
(* C18.  Every request to a route no handler matches gets status 404,      *)
(* every error passed to the error middleware gets status err.status if    *)
(* set and 500 otherwise, in both cases with the body {success: false,     *)
(* error: <non-empty string>}; no request ends without a JSON response.    *)
(***************************************************************************)
FailureEnvelope(json) ==
    /\ DOMAIN json = {"success", "error"}
    /\ json.success = FALSE
    /\ json.error.t = "str" /\ json.error.s # ""

Unmatched ==
    /\ server.route \notin RelayRoutes \cup {"GET /health"}
    /\ ~(server.route \in PostRoutes /\ server.body = Malformed)

\* The responses of the 404 handler and of the error middleware.
ServerEnvelopes ==
    (server.stage = "responded") =>
        /\ Unmatched =>
              /\ server.response.status = Num(404)
              /\ FailureEnvelope(server.response.json)
        /\ IsError(server.passed) =>
              /\ server.response.status =
                    IF server.passed.status # Undefined
                    THEN server.passed.status ELSE Num(500)
              /\ FailureEnvelope(server.response.json)

C18_EveryRequestGetsJson ==
    /\ ServerEnvelopes
    /\ (server.stage \in {"responded", "died"}) =>
          /\ server.stage = "responded"
          /\ server.response # NoResponse



(***************************************************************************)
(* C19.  Two calls of fetchSalesOrders with identical arguments against an *)
(* unchanged remote, with the same transport outcomes, return identical    *)
(* data: nothing is carried over from the first call to the second, and    *)
(* the random request ids have no influence.                               *)
(***************************************************************************)
Replies(cs) == [i \in 1..Len(cs) |-> cs[i].reply]

RequestIdsOf(cs) ==
    [i \in 1..Len(cs) |->
        IF cs[i].transport = "json" THEN cs[i].params.id ELSE 0]

C19_FetchIsIdempotent ==
    (Done /\ earlier # <<>> /\ Replies(earlier[1].calls) = Replies(calls)) =>
        /\ result.success = earlier[1].result.success
        /\ result.success => result.data = earlier[1].result.data

C19_Witness ==
    /\ Done /\ earlier # <<>>
    /\ Replies(earlier[1].calls) = Replies(calls)
    /\ RequestIdsOf(earlier[1].calls) # RequestIdsOf(calls)
    /\ ~XmlUsed
    /\ result.success /\ Len(result.data) = 1
    /\ result.data = earlier[1].result.data

(***************************************************************************)
(* C20.  The JSON path and the XML path normalize identically: for every   *)
(* raw record both produce the same normalized record, field by field, so  *)
(* the data of a successful fetch is the same whichever path produced it.  *)
(***************************************************************************)
C20_PathsNormalizeAlike ==
    /\ \A i \in 1..Len(remote.orders) :
          formatOrderJSON(remote.orders[i]) = formatOrderXML(remote.orders[i])
    /\ (op = "fetchSalesOrders" /\ Done /\ result.success) =>
          \A i \in 1..Len(result.data) :
              /\ result.data[i] = formatOrderJSON(RawPage[i])
              /\ result.data[i] = formatOrderXML(RawPage[i])

C20_Witness ==
    /\ Done /\ result.success /\ XmlUsed
    /\ Len(result.data) = 1
    /\ remote.orders[1].f.amount_total = Str("abc")
    /\ result.data[1] = formatOrderJSON(remote.orders[1])


(***************************************************************************)
(* C21.  Concurrent invocations are independent: under every interleaving  *)
(* of two invocations each one's calls go to its own url, each fetch       *)
(* authenticates itself before its data calls and uses the uid of its own  *)
(* authenticate reply, and the result of an invocation depends only on its *)
(* own arguments and on the replies to its own calls: two invocations with *)
(* the same operation, arguments and replies have the same result.         *)
(***************************************************************************)
OwnCalls(inv) ==
    \A i \in 1..Len(inv.calls) :
        /\ inv.calls[i].to.c[1] = inv.args.url.c[1]
        /\ inv.calls[i].to.c \in
              { OneSlashRemoved(inv.args.url.c) \o <<path>> :
                  path \in {"/jsonrpc", "/xmlrpc/2/common", "/xmlrpc/2/object"} }
        /\ inv.calls[i].method \in DataMethods =>
              /\ inv.op = "fetchSalesOrders"
              /\ inv.calls[1].method = "authenticate"
              /\ ReportsUid(inv.calls[1].reply)
              /\ inv.uid = UidOf(inv.calls[1].reply)
        /\ inv.calls[i].method = "search_count"
              /\ inv.calls[i].transport = "json" =>
              inv.calls[i].params.p.uid = UidOf(inv.calls[1].reply)

Finished(inv) == inv.pc = "done"

C21_InvocationsAreIndependent ==
    (other # NoOther) =>
        /\ OwnCalls(Running)
        /\ OwnCalls(other)
        /\ ( /\ Finished(Running) /\ Finished(other)
             /\ op = other.op /\ args = other.args
             /\ Replies(calls) = Replies(other.calls) ) =>
                result = other.result

\* Both invocations were in flight at once, against different urls, and
\* both have fetched over different paths.
C21_Witness ==
    /\ other # NoOther
    /\ Finished(Running) /\ Finished(other)
    /\ op = "fetchSalesOrders" /\ other.op = "fetchSalesOrders"
    /\ args.url # other.args.url
    /\ result.success /\ other.result.success
    /\ Len(result.data) = 1 /\ Len(other.result.data) = 1
    /\ XmlUsed
    /\ \A i \in 1..Len(other.calls) : other.calls[i].transport = "json"


(***************************************************************************)
(* C22.  JSON-RPC fetch path: it issues search_count (empty filter, no     *)
(* limit or offset) and then search_read (empty filter, the given limit    *)
(* and offset), in that order and once each; when the search_count call    *)
(* fails, search_read is never issued and the path throws, which starts    *)
(* the XML-RPC path.                                                       *)
(***************************************************************************)
CallFailed(i) ==
    /\ Answered(i)
    /\ \/ calls[i].reply.k = "reject"
       \/ calls[i].reply.k = "response" /\ ~NotNullish(calls[i].reply.data)

XmlDataCalls == { i \in CallIndexes : IsCall(i, "xml", DataMethods) }

\* The order of the calls and what each one is given.
XmlSequence ==
    /\ \A i \in CallIndexes : i < Len(calls) => Answered(i)
    /\ \A i \in XmlDataCalls :
          /\ calls[i].method = "search" =>
                /\ i - 1 \notin XmlDataCalls
                /\ calls[i].params =
                      [limit |-> args.limit, offset |-> args.offset]
          /\ calls[i].method = "search_count" =>
                /\ IsCall(i - 1, "xml", {"search"})
                /\ DOMAIN calls[i].params = {"filter"}
          /\ calls[i].method = "read" =>
                /\ IsCall(i - 1, "xml", {"search_count"})
                /\ IsCall(i - 2, "xml", {"search"})
                /\ DOMAIN calls[i].params = {"ids"}
                /\ calls[i].params.ids = calls[i - 2].reply.value

\* The last call of the XML-RPC path has been answered and no further call
\* was issued: the path is over.
XmlPathOver ==
    /\ Len(calls) > 0
    /\ Len(calls) \in XmlDataCalls
    /\ Answered(Len(calls))

C23_XmlCallSequence ==
    /\ XmlSequence
    /\ XmlPathOver => (pc = "done" /\ result # Pending)

(***************************************************************************)
(* C24.  The XML-RPC fetch path always settles: once the remote has        *)
(* answered its calls, the promise of fetchSalesWithXMLRPC is resolved or  *)
(* rejected whatever the answers are (also for a read result with a null   *)
(* entry), so fetchSalesOrders returns.                                    *)
(***************************************************************************)
C24_XmlPathSettles ==
    \A i \in XmlDataCalls :
        (i = Len(calls) /\ Answered(i)) => Returned /\ pc # "crashed"

(***************************************************************************)
(* C25.  Dashboard: once disconnectOdoo has run for a logged-in user,      *)
(* odooCredentials, connectionData and salesData are null and the three    *)
(* localStorage entries of the user are absent, and this stays so until    *)
(* the user submits the connect form again, also when the response of a    *)
(* fetchSalesData or reconnectOdoo started before arrives afterwards.      *)
(* dash.disconnected is set by Disconnect (when no request of a submitted  *)
(* form is in flight) and cleared by Submit.                               *)
(***************************************************************************)
Cleared(d) ==
    /\ d.odooCredentials = Null
    /\ d.connectionData = Null
    /\ d.salesData = Null
    /\ d.storage = NoKeys

C25_DisconnectStaysCleared == dash.disconnected => Cleared(dash)

(***************************************************************************)
(* C26.  Dashboard: the effect that loads the saved credentials calls      *)
(* reconnectOdoo a bounded number of times, once per mount (the user does  *)
(* not change here): setting odooCredentials to the parsed object does not *)
(* make the effect run and reconnect again.                                *)
(***************************************************************************)
C26_ReconnectOncePerMount == dash.mounted => dash.reconnects <= 1

(***************************************************************************)
(* C27.  Dashboard: what reconnectOdoo does with the answer of             *)
(* /api/odoo/connect.  An answer that is not ok or has success false       *)
(* removes the three keys and nulls the three state values; a request that *)
(* throws leaves the state and the keys as they were; the sales are        *)
(* fetched only after an answer that is ok with success true.              *)
(***************************************************************************)
\* The step is the arrival of the awaited response.
Reply(await) == dash'.pending[await] = dash.pending[await] - 1

Succeeded(r) == r.k = "response" /\ r.ok /\ r.data.success

\* The component but for its requests in flight and the event that ran.
Shown(d) ==
    [d EXCEPT !.pending = [a \in Awaits |-> 0], !.last = Event("", Null)]

SalesRequests(d) ==
    d.pending["sales:connect"] + d.pending["sales:reconnect"]
    + d.pending["sales:refresh"]

ReconnectOutcome ==
    LET r == dash'.last.given
    IN  /\ Reply("reconnect") =>
            /\ dash'.last.name = "reconnect"
            /\ r.k = "reject" =>
                  /\ Shown(dash') = Shown(dash)
                  /\ SalesRequests(dash') = SalesRequests(dash)
            /\ (r.k = "response" /\ ~Succeeded(r)) =>
                  /\ Cleared(dash')
                  /\ SalesRequests(dash') = SalesRequests(dash)
            /\ Succeeded(r) =>
                  /\ dash'.connectionData = r.data
                  /\ dash'.storage.connection = Text(r.data)
                  /\ dash'.pending["sales:reconnect"]
                        = dash.pending["sales:reconnect"] + 1
        /\ dash'.pending["sales:reconnect"] > dash.pending["sales:reconnect"]
              => Reply("reconnect") /\ Succeeded(r)

C27_ReconnectOutcome == [][ReconnectOutcome]_vars

C27_Witness ==
    /\ dash.last.name = "reconnect"
    /\ dash.last.given.k = "reject"
    /\ dash.odooCredentials # Null
    /\ dash.storage.credentials # Absent

(***************************************************************************)
(* C28.  Dashboard: when one of the saved entries does not parse while the *)
(* load effect runs, the three keys are removed and none of                *)
(* odooCredentials, connectionData and salesData is left populated from    *)
(* the saved entries: odooCredentials is non-null only while the           *)
(* credentials key exists.                                                 *)
(***************************************************************************)
\* The effect parses the entries only when the credentials entry exists;
\* it then parses every entry that exists, the credentials first.
ParseFails(saved) ==
    /\ saved.credentials # Absent
    /\ Corrupt \in {saved.credentials, saved.connection, saved.sales}

C28_CorruptEntriesLeaveNothing ==
    (dash.last.name = "loadEffect" /\ ParseFails(dash.last.given)) =>
        Cleared(dash)

\* What does hold: an entry that does not parse makes the effect remove the
\* three keys and start no reconnect, and a credentials entry that does not
\* parse leaves the state as it was.
CorruptEntriesRemoveKeys ==
    [][ (dash'.last.name = "loadEffect" /\ ParseFails(dash.storage)) =>
            /\ dash'.storage = NoKeys
            /\ dash'.pending = dash.pending
            /\ dash'.reconnects = dash.reconnects
            /\ dash.storage.credentials = Corrupt =>
                  /\ dash'.odooCredentials = dash.odooCredentials
                  /\ dash'.connectionData = dash.connectionData
                  /\ dash'.salesData = dash.salesData ]_vars

(***************************************************************************)
(* C29.  Dashboard: a failed fetchSalesData is silent and changes nothing  *)
(* else.  When the request to /api/odoo/sales fails (status not ok,        *)
(* success false, or an error thrown), salesData, connectionData,          *)
(* connectionError and localStorage are as before and salesLoading is      *)
(* false; salesData and the sales key are written only from an ok response *)
(* with success true.  So after handleApiConnect with a successful connect *)
(* and a failed sales fetch, connectionData is set, salesData is null and  *)
(* no error is shown.                                                      *)
(***************************************************************************)
SalesAwaits == {"sales:connect", "sales:reconnect", "sales:refresh"}

SalesFailureIsSilent ==
    LET r == dash'.last.given
    IN  /\ \A await \in SalesAwaits :
              Reply(await) =>
                 /\ dash'.last.name = await
                 /\ ~dash'.salesLoading
                 /\ ~Succeeded(r) =>
                       /\ dash'.salesData = dash.salesData
                       /\ dash'.connectionData = dash.connectionData
                       /\ dash'.connectionError = dash.connectionError
                       /\ dash'.storage = dash.storage
                       /\ dash'.odooCredentials = dash.odooCredentials
                 /\ Succeeded(r) =>
                       /\ dash'.salesData = r.data
                       /\ dash.user # Null =>
                             dash'.storage.sales = Text(r.data)
        /\ (dash'.storage.sales # dash.storage.sales
              /\ dash'.storage.sales # Absent)
              => \E await \in SalesAwaits : Reply(await) /\ Succeeded(r)

\* The sales fetch of handleApiConnect has failed.
ConnectedWithoutSales ==
    /\ dash.last.name = "sales:connect"
    /\ ~Succeeded(dash.last.given)

ConnectShowsNoError ==
    ConnectedWithoutSales =>
        /\ dash.connectionData # Null
        /\ dash.salesData = Null
        /\ dash.connectionError = ""

C29_SalesFailureIsSilent ==
    /\ [][SalesFailureIsSilent]_vars
    /\ []ConnectShowsNoError

(***************************************************************************)
(* C30.  Dashboard: handleApiConnect for ODOO with one of url, dbName,     *)
(* username, password empty sends no request, sets connectionError to the  *)
(* required-fields message, leaves odooCredentials and localStorage as     *)
(* they were and connectionLoading false; and in every other outcome       *)
(* (success, refused response, error thrown) connectionLoading is false    *)
(* when the handler has completed.                                         *)
(***************************************************************************)
Incomplete(form) ==
    /\ form.erp = "ODOO"
    /\ "" \in {form.url, form.dbName, form.username, form.password}

ConnectValidation ==
    LET form == dash'.last.given
    IN  dash'.last.name = "handleApiConnect" =>
           /\ Incomplete(form) =>
                 /\ dash'.pending = dash.pending
                 /\ dash'.connectionError = RequiredFieldsMessage
                 /\ dash'.odooCredentials = dash.odooCredentials
                 /\ dash'.storage = dash.storage
                 /\ ~dash'.connectionLoading
           \* the handler has returned, or it awaits its request
           /\ \/ dash'.pending = dash.pending /\ ~dash'.connectionLoading
              \/ /\ InFlight(dash') = InFlight(dash) + 1
                 /\ dash'.connectionLoading
                 /\ dash'.connectionError = ""

\* The awaited response ends the handler unless the connect has succeeded
\* and the handler goes on to await the sales.
ConnectCompletes ==
    LET r == dash'.last.given
    IN  /\ (Reply("connect") /\ ~Succeeded(r)) => ~dash'.connectionLoading
        /\ (Reply("connect") /\ Succeeded(r)) =>
              dash'.pending["sales:connect"] = dash.pending["sales:connect"] + 1
        /\ Reply("erp") => ~dash'.connectionLoading
        /\ Reply("sales:connect") => ~dash'.connectionLoading

C30_ConnectValidation == [][ConnectValidation /\ ConnectCompletes]_vars

C30_Witness ==
    /\ dash.last.name = "handleApiConnect"
    /\ Incomplete(dash.last.given)
    /\ dash.last.given.url # ""
    /\ dash.connectionError = RequiredFieldsMessage
    /\ dash.odooCredentials # Null
    /\ dash.storage.credentials # Absent

=============================================================================
